---- MODULE Spec2Model ----
(***************************************************************************)
(* Model of memtable/memtable.go: a skip list ordered by (key ascending,   *)
(* timestamp descending).  Insert runs under the mutex m.mu; Find and the  *)
(* Iterator take no lock and read the forward links with atomic loads.     *)
(* Every atomic load or store of a forward link is one step of the model.  *)
(***************************************************************************)
EXTENDS Integers, Sequences, FiniteSets, TLC

\* ------------------------------------------------------------------ bounds
\* maxLevel is 16 in the source (const block, line 29); the model keeps the
\* same code with a smaller number of levels.
maxLevel == 3
\* Largest number of entries allocated in one behaviour of Spec (two inserters
\* and an accessor, every argument) and of SpecLive ...
MaxNodes == 2
\* ... and of SpecReaders and SpecSerial (one inserter, Find and an Iterator).
MaxEntries == 3
\* Sequence numbers offered to New and Insert are 0..MaxSeq.
MaxSeq == 1

\* math.MaxInt64, the timestamp Find searches with.  Timestamps are only
\* compared, never added, so the top of the modelled timestamp range stands
\* for the top of int64.
MathMaxInt64 == 2147483647

\* The nil *node, and the address of the sentinel m.head.
nil == -1
head == 0

\* ------------------------------------------------------------------ inputs
\* Go strings are byte sequences: "", "k", "k1".
Keys == {<< >>, <<107>>, <<107, 49>>}
Timestamps == {50, 100, MathMaxInt64}
\* The timestamps of the specifications that interleave goroutines.
FewTimestamps == {100, MathMaxInt64}
\* A []byte is nil or a (possibly empty) byte sequence.
NilBytes == [isnil |-> TRUE, bytes |-> << >>]
Bytes(b) == [isnil |-> FALSE, bytes |-> b]
Values == {NilBytes, Bytes(<<118, 49>>)}
SeqNos == 0..MaxSeq

\* Goroutines.
Inserters == {"w1", "w2"}
Accessors == {"a1"}
Finders == {"f1"}
Iterators == {"i1"}
Unlocked == "unlocked"

Levels == 0..(maxLevel - 1)

\* ------------------------------------------------------------------ state
VARIABLES
    heap,        \* node address -> [key, timestamp, value, next]; heap[head] is m.head
    seqNoUpper,  \* m.seqNoUpper
    size,        \* m.size
    mu,          \* m.mu: Unlocked or the goroutine that holds it
    ins,         \* per inserter: position in Insert and its locals
    acc,         \* per accessor: position in SizeBytes/SequenceUpper
    fnd,         \* per finder: position in Find and its locals
    itr,         \* per iterator user: the Iterator and what it has yielded
    fault,       \* "none", or why the process was aborted (glog.Fatal, panic)
    stored,      \* history: the link slots <<node, level>> written by atomicStoreNext
    committedSeq,\* history: New's seqNo, then the seqNo of the last returned Insert
    pick         \* a call of pickLevel on its own: its local r and, as history, its results

vars == <<heap, seqNoUpper, size, mu, ins, acc, fnd, itr, fault, stored, committedSeq, pick>>

\* ------------------------------------------------------------------ helpers
\* Go's string comparison a < b: bytewise lexicographic.
RECURSIVE StrLess(_, _)
StrLess(a, b) ==
    IF b = << >> THEN FALSE
    ELSE IF a = << >> THEN TRUE
    ELSE IF Head(a) # Head(b) THEN Head(a) < Head(b)
    ELSE StrLess(Tail(a), Tail(b))

\* len(v) of a []byte.
LenBytes(v) == IF v.isnil THEN 0 ELSE Len(v.bytes)

\* bits.TrailingZeros64(r); it is 64 for r = 0.
RECURSIVE TrailingZeros64(_)
TrailingZeros64(r) ==
    IF r = 0 THEN 64
    ELSE IF r % 2 = 1 THEN 0 ELSE 1 + TrailingZeros64(r \div 2)

\* Mutant of Draws: the bound of Int63n is one too large.
Draws_Inclusive == 0..(2 ^ maxLevel)

\* The values m.rnd.Int63n(1 << maxLevel) can return.
Draws == 0..(2 ^ maxLevel - 1)

\* pickLevel: redraws while r = 0, so the level comes from a nonzero draw.
pickLevel(r) == TrailingZeros64(r)

\* The addresses of the entries allocated so far (the head excluded).
Nodes == DOMAIN heap \ {head}

\* n.atomicLoadNext(l)
atomicLoadNext(n, l) == heap[n].next[l]

\* n.atomicStoreNext(l, x), as the new heap.
atomicStoreNext(n, l, x) == [heap EXCEPT ![n].next[l] = x]

\* Mutant of SortsBefore: timestamps compared ascending.
SortsBefore_TimestampAscending(x, key, timestamp) ==
    \/ StrLess(heap[x].key, key)
    \/ (heap[x].key = key /\ heap[x].timestamp < timestamp)

\* Mutant of SortsBefore: the timestamp tie-break of line 134 is missing.
SortsBefore_KeyOnly(x, key, timestamp) == StrLess(heap[x].key, key)

\* The loop condition of findGreaterOrEqual: node x sorts strictly before (key, timestamp).
SortsBefore(x, key, timestamp) ==
    \/ StrLess(heap[x].key, key)
    \/ (heap[x].key = key /\ heap[x].timestamp > timestamp)

\* findGreaterOrEqual's locals on entry.
SearchInit(wantPrev) ==
    [c |-> head, cl |-> maxLevel - 1, nextAtLevel |-> nil,
     wantPrev |-> wantPrev, prev |-> [l \in Levels |-> nil]]

\* The slot the search loads next is a slot of its current node.
SearchInRange(s) == s.cl \in DOMAIN heap[s.c].next

\* Mutant of findGreaterOrEqual: the inner loop does not move to the next node
\* (c = nextAtLevel of line 135 is missing).
findGreaterOrEqual_NoAdvance(s, key, timestamp) ==
    LET nxt == atomicLoadNext(s.c, s.cl) IN
    IF nxt # nil /\ SortsBefore(nxt, key, timestamp)
    THEN [s EXCEPT !.nextAtLevel = nxt]
    ELSE [s EXCEPT !.nextAtLevel = nxt,
                   !.prev = IF s.wantPrev THEN [@ EXCEPT ![s.cl] = s.c] ELSE @,
                   !.cl = s.cl - 1]

\* One atomic load of findGreaterOrEqual and the local work that follows it:
\* advance along the level, or record prev[cl] and descend.
findGreaterOrEqual(s, key, timestamp) ==
    LET nxt == atomicLoadNext(s.c, s.cl) IN
    IF nxt # nil /\ SortsBefore(nxt, key, timestamp)
    THEN [s EXCEPT !.c = nxt, !.nextAtLevel = nxt]
    ELSE [s EXCEPT !.nextAtLevel = nxt,
                   !.prev = IF s.wantPrev THEN [@ EXCEPT ![s.cl] = s.c] ELSE @,
                   !.cl = s.cl - 1]

\* Mutant of SearchDone: the level loop stops above level 0 (cl > 0 for cl >= 0).
SearchDone_SkipsLevelZero(s) == s.cl < 1

\* The level loop of line 131 has ended.
SearchDone(s) == s.cl < 0

\* Mutant of SizeTerm: 8 bytes per level above 0 instead of per link.
SizeTerm_LinksOffByOne(key, value, level) == Len(key) + LenBytes(value) + 8 + 8 * level

\* The summand Insert adds to m.size.
SizeTerm(key, value, level) == Len(key) + LenBytes(value) + 8 + 8 * (level + 1)

\* ------------------------------------------------------------------ initial state
\* heap0 is history: the nodes as they were when the call acquired m.mu.
InsIdle ==
    [pc |-> "idle", seqNo |-> 0, key |-> << >>, timestamp |-> 0, value |-> NilBytes,
     s |-> SearchInit(TRUE), level |-> 0, newNode |-> nil, i |-> 0, heap0 |-> << >>]
AccIdle == [pc |-> "idle", op |-> "none", ret |-> 0]
\* completed is history: the entries of the key whose Insert had returned when Find began.
FndIdle == [pc |-> "idle", key |-> << >>, s |-> SearchInit(FALSE), completed |-> {}]
ItrIdle == [pc |-> "idle", n |-> nil, yielded |-> << >>, snapshot |-> {}]
\* results is history: the pairs <<draw, level>> the calls of pickLevel have returned.
PickIdle == [pc |-> "idle", r |-> 0, results |-> {}]

\* New(seqNo)
Init ==
    /\ heap = [a \in {head} |->
                 [key |-> << >>, timestamp |-> 0, value |-> NilBytes,
                  next |-> [l \in Levels |-> nil]]]
    /\ seqNoUpper \in SeqNos
    /\ size = 0
    /\ mu = Unlocked
    /\ ins = [t \in Inserters |-> InsIdle]
    /\ acc = [a \in Accessors |-> AccIdle]
    /\ fnd = [f \in Finders |-> FndIdle]
    /\ itr = [it \in Iterators |-> ItrIdle]
    /\ fault = "none"
    /\ stored = {<<head, l>> : l \in Levels}
    /\ committedSeq = seqNoUpper
    /\ pick = PickIdle

Running == fault = "none"

\* ------------------------------------------------------------------ Insert
\* Mutant of InsertBegin: the seqNo check of lines 79-81 is missing.
InsertBegin_NoSeqNoCheck(t, seqNo, key, timestamp, value) ==
    /\ Running
    /\ ins[t].pc = "idle"
    /\ mu = Unlocked
    /\ mu' = t
    /\ LET call == [InsIdle EXCEPT !.seqNo = seqNo, !.key = key, !.timestamp = timestamp,
                                   !.value = value, !.heap0 = heap] IN
       /\ seqNoUpper' = seqNo
       /\ IF key = << >>
          THEN /\ fault' = "emptyKey"
               /\ ins' = [ins EXCEPT ![t] = [call EXCEPT !.pc = "fatal"]]
          ELSE /\ fault' = fault
               /\ ins' = [ins EXCEPT ![t] = [call EXCEPT !.pc = "search"]]
    /\ UNCHANGED <<heap, size, acc, fnd, itr, stored, committedSeq, pick>>

\* Mutant of InsertBegin: the empty-key check of lines 84-86 is missing.
InsertBegin_NoEmptyKeyCheck(t, seqNo, key, timestamp, value) ==
    /\ Running
    /\ ins[t].pc = "idle"
    /\ mu = Unlocked
    /\ mu' = t
    /\ LET call == [InsIdle EXCEPT !.seqNo = seqNo, !.key = key, !.timestamp = timestamp,
                                   !.value = value, !.heap0 = heap] IN
       IF seqNo < seqNoUpper
       THEN /\ fault' = "seqNo"
            /\ ins' = [ins EXCEPT ![t] = [call EXCEPT !.pc = "fatal"]]
            /\ UNCHANGED seqNoUpper
       ELSE /\ seqNoUpper' = seqNo
            /\ fault' = fault
            /\ ins' = [ins EXCEPT ![t] = [call EXCEPT !.pc = "search"]]
    /\ UNCHANGED <<heap, size, acc, fnd, itr, stored, committedSeq, pick>>

\* Insert, lines 76-87: m.mu.Lock(), the seqNo check, m.seqNoUpper = seqNo, the
\* empty-key check, and the entry into findGreaterOrEqual.  glog.Fatal aborts the
\* process: the deferred Unlock never runs.
InsertBegin(t, seqNo, key, timestamp, value) ==
    /\ Running
    /\ ins[t].pc = "idle"
    /\ mu = Unlocked
    /\ mu' = t
    /\ LET call == [InsIdle EXCEPT !.seqNo = seqNo, !.key = key, !.timestamp = timestamp,
                                   !.value = value, !.heap0 = heap] IN
       IF seqNo < seqNoUpper
       THEN /\ fault' = "seqNo"
            /\ ins' = [ins EXCEPT ![t] = [call EXCEPT !.pc = "fatal"]]
            /\ UNCHANGED seqNoUpper
       ELSE /\ seqNoUpper' = seqNo
            /\ IF key = << >>
               THEN /\ fault' = "emptyKey"
                    /\ ins' = [ins EXCEPT ![t] = [call EXCEPT !.pc = "fatal"]]
               ELSE /\ fault' = fault
                    /\ ins' = [ins EXCEPT ![t] = [call EXCEPT !.pc = "search"]]
    /\ UNCHANGED <<heap, size, acc, fnd, itr, stored, committedSeq, pick>>

\* Insert, line 89: one atomic load of the search.  An index past the end of a
\* node's next slice is a run-time panic.
InsertSearch(t) ==
    /\ Running
    /\ ins[t].pc = "search"
    /\ IF ~SearchInRange(ins[t].s)
       THEN /\ fault' = "panic"
            /\ ins' = [ins EXCEPT ![t].pc = "fatal"]
       ELSE /\ fault' = fault
            /\ LET s2 == findGreaterOrEqual(ins[t].s, ins[t].key, ins[t].timestamp) IN
               ins' = [ins EXCEPT ![t].s = s2,
                                  ![t].pc = IF SearchDone(s2) THEN "found" ELSE "search"]
    /\ UNCHANGED <<heap, seqNoUpper, size, mu, acc, fnd, itr, stored, committedSeq, pick>>

\* Mutant of InsertAlloc: the duplicate check of lines 91-93 is missing.
InsertAlloc_NoDuplicateCheck(t, r) ==
    /\ Running
    /\ ins[t].pc = "found"
    /\ LET level == pickLevel(r)
           addr == Cardinality(DOMAIN heap)
       IN
       /\ heap' = [a \in DOMAIN heap \cup {addr} |->
                     IF a = addr
                     THEN [key |-> ins[t].key, timestamp |-> ins[t].timestamp,
                           value |-> ins[t].value,
                           next |-> [l \in 0..level |-> nil]]
                     ELSE heap[a]]
       /\ size' = size + SizeTerm(ins[t].key, ins[t].value, level)
       /\ ins' = [ins EXCEPT ![t].level = level, ![t].newNode = addr,
                             ![t].i = 0, ![t].pc = "copy"]
    /\ UNCHANGED <<seqNoUpper, mu, acc, fnd, itr, fault, stored, committedSeq, pick>>

\* Mutant of InsertAlloc: the new node is made with level slots instead of level+1.
InsertAlloc_OneSlotShort(t, r) ==
    /\ Running
    /\ ins[t].pc = "found"
    /\ LET n == ins[t].s.nextAtLevel
           level == pickLevel(r)
           addr == Cardinality(DOMAIN heap)
       IN
       IF n # nil /\ heap[n].timestamp = ins[t].timestamp /\ heap[n].key = ins[t].key
       THEN /\ fault' = "duplicate"
            /\ ins' = [ins EXCEPT ![t].pc = "fatal"]
            /\ UNCHANGED <<heap, size>>
       ELSE /\ fault' = fault
            /\ heap' = [a \in DOMAIN heap \cup {addr} |->
                          IF a = addr
                          THEN [key |-> ins[t].key, timestamp |-> ins[t].timestamp,
                                value |-> ins[t].value,
                                next |-> [l \in 0..(level - 1) |-> nil]]
                          ELSE heap[a]]
            /\ size' = size + SizeTerm(ins[t].key, ins[t].value, level)
            /\ ins' = [ins EXCEPT ![t].level = level, ![t].newNode = addr,
                                  ![t].i = 0, ![t].pc = "copy"]
    /\ UNCHANGED <<seqNoUpper, mu, acc, fnd, itr, stored, committedSeq, pick>>

\* Insert, lines 91-102: the duplicate check, pickLevel, the allocation of newNode
\* (make zeroes its links) and the size update.  r is the nonzero draw of pickLevel.
InsertAlloc(t, r) ==
    /\ Running
    /\ ins[t].pc = "found"
    /\ LET n == ins[t].s.nextAtLevel
           level == pickLevel(r)
           addr == Cardinality(DOMAIN heap)
       IN
       IF n # nil /\ heap[n].timestamp = ins[t].timestamp /\ heap[n].key = ins[t].key
       THEN /\ fault' = "duplicate"
            /\ ins' = [ins EXCEPT ![t].pc = "fatal"]
            /\ UNCHANGED <<heap, size>>
       ELSE /\ fault' = fault
            /\ heap' = [a \in DOMAIN heap \cup {addr} |->
                          IF a = addr
                          THEN [key |-> ins[t].key, timestamp |-> ins[t].timestamp,
                                value |-> ins[t].value,
                                next |-> [l \in 0..level |-> nil]]
                          ELSE heap[a]]
            /\ size' = size + SizeTerm(ins[t].key, ins[t].value, level)
            /\ ins' = [ins EXCEPT ![t].level = level, ![t].newNode = addr,
                                  ![t].i = 0, ![t].pc = "copy"]
    /\ UNCHANGED <<seqNoUpper, mu, acc, fnd, itr, stored, committedSeq, pick>>

\* The predecessor Insert uses at level i is a node with a level-i slot.
PrevInRange(t) ==
    LET p == ins[t].s.prev[ins[t].i] IN p # nil /\ ins[t].i \in DOMAIN heap[p].next

\* Mutant of InsertCopy: line 105 is missing, the new entry's link is never set.
InsertCopy_Skipped(t) ==
    /\ Running
    /\ ins[t].pc = "copy"
    /\ ins' = [ins EXCEPT ![t].pc = "publish"]
    /\ UNCHANGED <<heap, seqNoUpper, size, mu, acc, fnd, itr, fault, stored, committedSeq, pick>>

\* Mutant of InsertCopy: the new entry's level-i link is copied from the
\* predecessor's level-0 link (index 0 written for i).
InsertCopy_LevelZeroLink(t) ==
    /\ Running
    /\ ins[t].pc = "copy"
    /\ fault' = fault
    /\ LET i == ins[t].i
           p == ins[t].s.prev[i] IN
       /\ heap' = atomicStoreNext(ins[t].newNode, i, atomicLoadNext(p, 0))
       /\ stored' = stored \cup {<<ins[t].newNode, i>>}
    /\ ins' = [ins EXCEPT ![t].pc = "publish"]
    /\ UNCHANGED <<seqNoUpper, size, mu, acc, fnd, itr, committedSeq, pick>>

\* Insert, line 105: newNode.atomicStoreNext(i, prev[i].atomicLoadNext(i)).
InsertCopy(t) ==
    /\ Running
    /\ ins[t].pc = "copy"
    /\ IF ~PrevInRange(t)
       THEN /\ fault' = "panic"
            /\ ins' = [ins EXCEPT ![t].pc = "fatal"]
            /\ UNCHANGED <<heap, stored>>
       ELSE /\ fault' = fault
            /\ LET i == ins[t].i
                   p == ins[t].s.prev[i] IN
               /\ heap' = atomicStoreNext(ins[t].newNode, i, atomicLoadNext(p, i))
               /\ stored' = stored \cup {<<ins[t].newNode, i>>}
            /\ ins' = [ins EXCEPT ![t].pc = "publish"]
    /\ UNCHANGED <<seqNoUpper, size, mu, acc, fnd, itr, committedSeq, pick>>

\* Mutant of InsertPublish: the first pass redirects the predecessors of every level
\* 0..level at once, before the new entry's higher links are populated.
InsertPublish_Eager(t) ==
    /\ Running
    /\ ins[t].pc = "publish"
    /\ LET i == ins[t].i
           redirect == IF i = 0 THEN 0..ins[t].level ELSE {i} IN
       /\ heap' = [a \in DOMAIN heap |->
                     [heap[a] EXCEPT !.next =
                        [l \in DOMAIN heap[a].next |->
                           IF l \in redirect /\ ins[t].s.prev[l] = a
                           THEN ins[t].newNode ELSE heap[a].next[l]]]]
       /\ stored' = stored \cup {<<ins[t].s.prev[l], l>> : l \in redirect}
       /\ ins' = [ins EXCEPT ![t].i = i + 1,
                             ![t].pc = IF i + 1 <= ins[t].level THEN "copy" ELSE "return"]
    /\ UNCHANGED <<seqNoUpper, size, mu, acc, fnd, itr, fault, committedSeq, pick>>

\* Mutant of InsertPublish: the predecessor's level-0 slot is redirected at every
\* level (index 0 written for i).
InsertPublish_LevelZeroSlot(t) ==
    /\ Running
    /\ ins[t].pc = "publish"
    /\ LET i == ins[t].i
           p == ins[t].s.prev[i] IN
       /\ heap' = atomicStoreNext(p, 0, ins[t].newNode)
       /\ stored' = stored \cup {<<p, 0>>}
       /\ ins' = [ins EXCEPT ![t].i = i + 1,
                             ![t].pc = IF i + 1 <= ins[t].level THEN "copy" ELSE "return"]
    /\ UNCHANGED <<seqNoUpper, size, mu, acc, fnd, itr, fault, committedSeq, pick>>

\* Insert, line 106 and the loop header of line 104: prev[i].atomicStoreNext(i, newNode); i++.
InsertPublish(t) ==
    /\ Running
    /\ ins[t].pc = "publish"
    /\ LET i == ins[t].i
           p == ins[t].s.prev[i] IN
       /\ heap' = atomicStoreNext(p, i, ins[t].newNode)
       /\ stored' = stored \cup {<<p, i>>}
       /\ ins' = [ins EXCEPT ![t].i = i + 1,
                             ![t].pc = IF i + 1 <= ins[t].level THEN "copy" ELSE "return"]
    /\ UNCHANGED <<seqNoUpper, size, mu, acc, fnd, itr, fault, committedSeq, pick>>

\* Insert, line 108: the return, which runs the deferred m.mu.Unlock().
InsertReturn(t) ==
    /\ Running
    /\ ins[t].pc = "return"
    /\ mu' = Unlocked
    /\ committedSeq' = ins[t].seqNo
    /\ ins' = [ins EXCEPT ![t] = InsIdle]
    /\ UNCHANGED <<heap, seqNoUpper, size, acc, fnd, itr, fault, stored, pick>>

\* ------------------------------------------------------------------ accessors
\* Mutant of SizeBytesBegin: m.size is read without waiting for the lock.
SizeBytesBegin_NoLock(a) ==
    /\ Running
    /\ acc[a].pc = "idle"
    /\ acc' = [acc EXCEPT ![a] = [pc |-> "locked", op |-> "SizeBytes", ret |-> size]]
    /\ UNCHANGED <<heap, seqNoUpper, size, mu, ins, fnd, itr, fault, stored, committedSeq, pick>>

\* SizeBytes, lines 112-114: m.mu.Lock() and the read of m.size for the return value.
SizeBytesBegin(a) ==
    /\ Running
    /\ acc[a].pc = "idle"
    /\ mu = Unlocked
    /\ mu' = a
    /\ acc' = [acc EXCEPT ![a] = [pc |-> "locked", op |-> "SizeBytes", ret |-> size]]
    /\ UNCHANGED <<heap, seqNoUpper, size, ins, fnd, itr, fault, stored, committedSeq, pick>>

\* SequenceUpper, lines 119-121: m.mu.Lock() and the read of m.seqNoUpper.
SequenceUpperBegin(a) ==
    /\ Running
    /\ acc[a].pc = "idle"
    /\ mu = Unlocked
    /\ mu' = a
    /\ acc' = [acc EXCEPT ![a] = [pc |-> "locked", op |-> "SequenceUpper", ret |-> seqNoUpper]]
    /\ UNCHANGED <<heap, seqNoUpper, size, ins, fnd, itr, fault, stored, committedSeq, pick>>

\* The deferred m.mu.Unlock() of SizeBytes and SequenceUpper, and the return.
AccessorReturn(a) ==
    /\ Running
    /\ acc[a].pc = "locked"
    /\ mu' = Unlocked
    /\ acc' = [acc EXCEPT ![a] = AccIdle]
    /\ UNCHANGED <<heap, seqNoUpper, size, ins, fnd, itr, fault, stored, committedSeq, pick>>

\* ------------------------------------------------------------------ Find
\* The entries whose Insert has returned: every entry but the new entry of an Insert
\* still in progress (or aborted).
Returned == {x \in Nodes : \A t \in Inserters : ins[t].newNode # x}

\* Find, lines 149-153: the empty-key check and the entry into the search with
\* math.MaxInt64.  No lock is taken.
FindBegin(f, key) ==
    /\ Running
    /\ fnd[f].pc = "idle"
    /\ IF key = << >>
       THEN /\ fault' = "emptyKey"
            /\ fnd' = [fnd EXCEPT ![f] = [FndIdle EXCEPT !.pc = "fatal"]]
       ELSE /\ fault' = fault
            /\ fnd' = [fnd EXCEPT ![f] =
                          [FndIdle EXCEPT !.pc = "search", !.key = key,
                                          !.completed = {x \in Returned : heap[x].key = key}]]
    /\ UNCHANGED <<heap, seqNoUpper, size, mu, ins, acc, itr, stored, committedSeq, pick>>

\* Mutant of FindSearch: the search waits for m.mu to be free before each load.
FindSearch_Locked(f) ==
    /\ Running
    /\ mu = Unlocked
    /\ fnd[f].pc = "search"
    /\ fault' = fault
    /\ LET s2 == findGreaterOrEqual(fnd[f].s, fnd[f].key, MathMaxInt64) IN
       fnd' = [fnd EXCEPT ![f].s = s2,
                          ![f].pc = IF SearchDone(s2) THEN "return" ELSE "search"]
    /\ UNCHANGED <<heap, seqNoUpper, size, mu, ins, acc, itr, stored, committedSeq, pick>>

\* Mutant of FindSearch: the search is given timestamp 0 instead of math.MaxInt64.
FindSearch_TimestampZero(f) ==
    /\ Running
    /\ fnd[f].pc = "search"
    /\ fault' = fault
    /\ LET s2 == findGreaterOrEqual(fnd[f].s, fnd[f].key, 0) IN
       fnd' = [fnd EXCEPT ![f].s = s2,
                          ![f].pc = IF SearchDone(s2) THEN "return" ELSE "search"]
    /\ UNCHANGED <<heap, seqNoUpper, size, mu, ins, acc, itr, stored, committedSeq, pick>>

\* Find, line 153: one atomic load of the search.
FindSearch(f) ==
    /\ Running
    /\ fnd[f].pc = "search"
    /\ IF ~SearchInRange(fnd[f].s)
       THEN /\ fault' = "panic"
            /\ fnd' = [fnd EXCEPT ![f].pc = "fatal"]
       ELSE /\ fault' = fault
            /\ LET s2 == findGreaterOrEqual(fnd[f].s, fnd[f].key, MathMaxInt64) IN
               fnd' = [fnd EXCEPT ![f].s = s2,
                                  ![f].pc = IF SearchDone(s2) THEN "return" ELSE "search"]
    /\ UNCHANGED <<heap, seqNoUpper, size, mu, ins, acc, itr, stored, committedSeq, pick>>

\* Mutant of FindResult: the key of the node found is not compared.
FindResult_NoKeyCheck(f) ==
    LET n == fnd[f].s.nextAtLevel IN
    IF n # nil
    THEN [value |-> heap[n].value, found |-> TRUE]
    ELSE [value |-> NilBytes, found |-> FALSE]

\* Find, lines 155-158: what Find returns once its search has ended at node n.
FindResult(f) ==
    LET n == fnd[f].s.nextAtLevel IN
    IF n # nil /\ heap[n].key = fnd[f].key
    THEN [value |-> heap[n].value, found |-> TRUE]
    ELSE [value |-> NilBytes, found |-> FALSE]

\* Find returns FindResult(f).
FindReturn(f) ==
    /\ Running
    /\ fnd[f].pc = "return"
    /\ fnd' = [fnd EXCEPT ![f] = FndIdle]
    /\ UNCHANGED <<heap, seqNoUpper, size, mu, ins, acc, itr, fault, stored, committedSeq, pick>>

\* ------------------------------------------------------------------ Iterator
\* The entries on the level-l chain that starts at node a (a excluded).
RECURSIVE Chain(_, _, _)
Chain(a, l, fuel) ==
    LET x == heap[a].next[l] IN
    IF x = nil \/ fuel = 0 THEN << >> ELSE <<x>> \o Chain(x, l, fuel - 1)

ChainFrom(a, l) == Chain(a, l, Cardinality(DOMAIN heap))
Range(q) == {q[j] : j \in 1..Len(q)}

\* NewIterator, lines 169-174.  snapshot is history: the entries linked at level 0 now.
NewIterator(it) ==
    /\ Running
    /\ itr[it].pc = "idle"
    /\ itr' = [itr EXCEPT ![it] = [pc |-> "open", n |-> head, yielded |-> << >>,
                                   snapshot |-> Range(ChainFrom(head, 0))]]
    /\ UNCHANGED <<heap, seqNoUpper, size, mu, ins, acc, fnd, fault, stored, committedSeq, pick>>

\* Iterator.Next, lines 177-180: one atomic load of the level-0 link.  A true return
\* lets the caller read Key, Timestamp and Value of the entry: it is yielded.
IteratorNext(it) ==
    /\ Running
    /\ itr[it].pc = "open"
    /\ LET x == atomicLoadNext(itr[it].n, 0) IN
       itr' = [itr EXCEPT ![it].n = x,
                          ![it].yielded = IF x = nil THEN @ ELSE Append(@, x),
                          ![it].pc = IF x = nil THEN "exhausted" ELSE "open"]
    /\ UNCHANGED <<heap, seqNoUpper, size, mu, ins, acc, fnd, fault, stored, committedSeq, pick>>

\* Iterator.Close, line 198, after Next has returned false.
IteratorClose(it) ==
    /\ Running
    /\ itr[it].pc = "exhausted"
    /\ itr' = [itr EXCEPT ![it] = ItrIdle]
    /\ UNCHANGED <<heap, seqNoUpper, size, mu, ins, acc, fnd, fault, stored, committedSeq, pick>>

\* ------------------------------------------------------------------ pickLevel
\* pickLevel, line 202: var r uint64.
PickBegin ==
    /\ pick.pc = "idle"
    /\ pick' = [pick EXCEPT !.pc = "loop", !.r = 0]
    /\ UNCHANGED <<heap, seqNoUpper, size, mu, ins, acc, fnd, itr, fault, stored, committedSeq>>

\* pickLevel, lines 203-205: one turn of the loop, entered while r is 0; d is the
\* value of m.rnd.Int63n(1 << maxLevel).
PickDraw(d) ==
    /\ pick.pc = "loop"
    /\ pick.r = 0
    /\ pick' = [pick EXCEPT !.r = d]
    /\ UNCHANGED <<heap, seqNoUpper, size, mu, ins, acc, fnd, itr, fault, stored, committedSeq>>

\* pickLevel, line 206: the loop has ended with r # 0; the level is returned.
PickReturn ==
    /\ pick.pc = "loop"
    /\ pick.r # 0
    /\ pick' = [pc |-> "idle", r |-> 0,
                results |-> pick.results \cup {<<pick.r, pickLevel(pick.r)>>}]
    /\ UNCHANGED <<heap, seqNoUpper, size, mu, ins, acc, fnd, itr, fault, stored, committedSeq>>

\* ------------------------------------------------------------------ specifications
\* The steps of one goroutine inside Insert.
InsertStep(t) ==
    \/ InsertSearch(t)
    \/ \E r \in Draws \ {0} : InsertAlloc(t, r)
    \/ InsertCopy(t)
    \/ InsertPublish(t)
    \/ InsertReturn(t)

\* The lock users: every inserter and accessor, any arguments.
Next ==
    \/ \E t \in Inserters, seqNo \in SeqNos, key \in Keys,
          timestamp \in FewTimestamps, value \in Values :
          Cardinality(Nodes) < MaxNodes /\ InsertBegin(t, seqNo, key, timestamp, value)
    \/ \E t \in Inserters : InsertStep(t)
    \/ \E a \in Accessors : SizeBytesBegin(a)
    \/ \E a \in Accessors : SequenceUpperBegin(a)
    \/ \E a \in Accessors : AccessorReturn(a)

Spec == Init /\ [][Next]_vars

\* One inserter against the lock-free readers.  The inserts carry the current
\* watermark as seqNo and one value: neither decides a link or a comparison.
Writer == "w1"
NextReaders ==
    \/ \E key \in Keys \ {<< >>}, timestamp \in FewTimestamps :
          Cardinality(Nodes) < MaxEntries
          /\ InsertBegin(Writer, seqNoUpper, key, timestamp, NilBytes)
    \/ InsertStep(Writer)
    \/ \E f \in Finders, key \in Keys : FindBegin(f, key)
    \/ \E f \in Finders : FindSearch(f)
    \/ \E f \in Finders : FindReturn(f)
    \/ \E it \in Iterators : NewIterator(it)
    \/ \E it \in Iterators : IteratorNext(it)
    \/ \E it \in Iterators : IteratorClose(it)

\* New(0)
InitZero == Init /\ seqNoUpper = 0

SpecReaders == InitZero /\ [][NextReaders]_vars

\* The quiescent use: one operation at a time (an Insert, a Find or an iteration
\* runs from its first step to its return before the next operation begins).
FindersIdle == \A f \in Finders : fnd[f].pc = "idle"
IteratorsIdle == \A it \in Iterators : itr[it].pc = "idle"
NextSerial ==
    \/ \E key \in Keys, timestamp \in Timestamps, value \in Values :
          Cardinality(Nodes) < MaxEntries /\ FindersIdle /\ IteratorsIdle
          /\ InsertBegin(Writer, seqNoUpper, key, timestamp, value)
    \/ InsertStep(Writer)
    \/ \E f \in Finders, key \in Keys :
          mu = Unlocked /\ IteratorsIdle /\ FindBegin(f, key)
    \/ \E f \in Finders : FindSearch(f)
    \/ \E f \in Finders : FindReturn(f)
    \/ \E it \in Iterators : mu = Unlocked /\ FindersIdle /\ NewIterator(it)
    \/ \E it \in Iterators : IteratorNext(it)
    \/ \E it \in Iterators : IteratorClose(it)

SpecSerial == InitZero /\ [][NextSerial]_vars

\* The stalled inserter: Find and the Iterator begin only while the inserter holds
\* m.mu, and the inserter takes no step until every reader is idle again, so each
\* reader runs from its first step to its last beside an Insert stopped between two
\* of its steps.  The readers are runnable goroutines and are scheduled fairly.
NextStalled ==
    \/ \E key \in Keys \ {<< >>}, timestamp \in FewTimestamps :
          Cardinality(Nodes) < MaxEntries /\ FindersIdle /\ IteratorsIdle
          /\ InsertBegin(Writer, seqNoUpper, key, timestamp, NilBytes)
    \/ FindersIdle /\ IteratorsIdle /\ InsertStep(Writer)
    \/ \E f \in Finders, key \in Keys \ {<< >>} : mu = Writer /\ FindBegin(f, key)
    \/ \E f \in Finders : FindSearch(f)
    \/ \E f \in Finders : FindReturn(f)
    \/ \E it \in Iterators : mu = Writer /\ NewIterator(it)
    \/ \E it \in Iterators : IteratorNext(it)
    \/ \E it \in Iterators : IteratorClose(it)

SpecStalled ==
    /\ InitZero
    /\ [][NextStalled]_vars
    /\ \A f \in Finders : WF_vars(FindSearch(f))
    /\ \A it \in Iterators : WF_vars(IteratorNext(it))

\* The quiescent use with the accessors: SizeBytes and SequenceUpper are further
\* operations that run one at a time with the others.
NextFrame ==
    \/ NextSerial
    \/ \E a \in Accessors : FindersIdle /\ IteratorsIdle /\ SizeBytesBegin(a)
    \/ \E a \in Accessors : FindersIdle /\ IteratorsIdle /\ SequenceUpperBegin(a)
    \/ \E a \in Accessors : AccessorReturn(a)

SpecFrame == InitZero /\ [][NextFrame]_vars

\* Finitely many Inserts beside a Find and an Iterator, every goroutine scheduled
\* fairly: a goroutine inside Insert holds m.mu and is never blocked, and Find and
\* Iterator.Next wait for nothing.  The calls meet the requirements of Insert (line
\* 74: the (key, timestamp) does not exist yet) and of Insert and Find on the key; a
\* call that does not is a glog.Fatal, which ends the process and with it every
\* call in progress.
NextLive ==
    \/ \E key \in Keys \ {<< >>}, timestamp \in FewTimestamps :
          Cardinality(Nodes) < MaxNodes
          /\ ~(\E x \in Nodes : heap[x].key = key /\ heap[x].timestamp = timestamp)
          /\ InsertBegin(Writer, seqNoUpper, key, timestamp, NilBytes)
    \/ InsertStep(Writer)
    \/ \E f \in Finders, key \in Keys \ {<< >>} : FindBegin(f, key)
    \/ \E f \in Finders : FindSearch(f)
    \/ \E f \in Finders : FindReturn(f)
    \/ \E it \in Iterators : NewIterator(it)
    \/ \E it \in Iterators : IteratorNext(it)
    \/ \E it \in Iterators : IteratorClose(it)

SpecLive ==
    /\ InitZero
    /\ [][NextLive]_vars
    /\ WF_vars(InsertStep(Writer))
    /\ \A f \in Finders : WF_vars(FindSearch(f))
    /\ \A it \in Iterators : WF_vars(IteratorNext(it))

\* Calls of pickLevel, one after another, with every value the random source can give.
NextPick ==
    \/ PickBegin
    \/ \E d \in Draws : PickDraw(d)
    \/ PickReturn

SpecPick == InitZero /\ [][NextPick]_vars

\* ------------------------------------------------------------------ observations
\* Entry a sorts strictly before entry b: key ascending, then timestamp descending.
EntryBefore(a, b) ==
    \/ StrLess(heap[a].key, heap[b].key)
    \/ (heap[a].key = heap[b].key /\ heap[a].timestamp > heap[b].timestamp)

\* The nodes reachable from the head along forward links of any levels.
LinkTargets(R) ==
    UNION {{heap[a].next[l] : l \in DOMAIN heap[a].next} : a \in R} \ {nil}

RECURSIVE ReachFrom(_, _)
ReachFrom(R, fuel) ==
    LET R2 == R \cup LinkTargets(R) IN
    IF fuel = 0 \/ R2 = R THEN R ELSE ReachFrom(R2, fuel - 1)

Reachable == ReachFrom({head}, Cardinality(DOMAIN heap)) \ {head}

\* The inserters that hold a new entry: allocated, its Insert not yet returned.
Linking == {t \in Inserters : ins[t].pc \in {"copy", "publish", "return"}}

\* Level l of node x has been written by an atomicStoreNext.
Populated(x, l) == <<x, l>> \in stored

\* Some node's level-l link points to x.
LinkedAt(x, l) == \E a \in DOMAIN heap : l \in DOMAIN heap[a].next /\ heap[a].next[l] = x

\* ------------------------------------------------------------------ C1
\* C1 as stated: whenever the new entry of an in-flight Insert is reachable from the
\* head at any level, all L+1 of its forward links have been populated.
C1_PopulatedBeforeReachable ==
    \A t \in Linking :
        ins[t].newNode \in Reachable
            => \A l \in 0..ins[t].level : Populated(ins[t].newNode, l)

\* C1 amended: publish-after-populate holds level by level.  Whenever some node's
\* level-l link points to an entry, that entry's links at levels 0..l have been
\* populated; the links above l may still be unset while the Insert is in flight.
C1_PopulatedBeforeLinkedPerLevel ==
    \A x \in Nodes : \A l \in DOMAIN heap[x].next :
        LinkedAt(x, l) => \A j \in 0..l : Populated(x, j)

\* C1 witness: an Insert at level >= 1 has published its entry at level 0 and has
\* not yet populated the entry's level-1 link.
C1_Witness ==
    \E t \in Linking :
        /\ ins[t].level >= 1
        /\ ins[t].pc = "copy" /\ ins[t].i = 1
        /\ LinkedAt(ins[t].newNode, 0)
        /\ ~Populated(ins[t].newNode, 1)

\* ------------------------------------------------------------------ C2
\* A node a reader stands on is a constructed entry: the head, or an allocated
\* node whose key is the non-empty key its Insert was given.
Constructed(x) == x \in DOMAIN heap /\ (x # head => heap[x].key # << >>)

\* C2: with one inserter stepping through Insert and a Find and an Iterator stepping
\* beside it, every entry a reader has arrived at is fully constructed, every link
\* slot a reader is about to load exists and has already been stored, and no reader
\* has panicked.
C2_ConcurrentReadSafety ==
    /\ fault # "panic"
    /\ \A f \in Finders :
          fnd[f].pc \in {"search", "return"} =>
              /\ Constructed(fnd[f].s.c)
              /\ fnd[f].s.nextAtLevel # nil => Constructed(fnd[f].s.nextAtLevel)
              /\ fnd[f].pc = "search" =>
                    /\ fnd[f].s.cl \in DOMAIN heap[fnd[f].s.c].next
                    /\ Populated(fnd[f].s.c, fnd[f].s.cl)
    /\ \A it \in Iterators :
          itr[it].pc = "open" =>
              /\ Constructed(itr[it].n)
              /\ 0 \in DOMAIN heap[itr[it].n].next
              /\ Populated(itr[it].n, 0)

\* C2 witness: a Find and an Iterator both stand on the new entry of an Insert that
\* is still in flight, with a higher link of that entry not yet populated.
C2_Witness ==
    /\ ins[Writer].pc = "copy" /\ ins[Writer].i >= 1
    /\ ~Populated(ins[Writer].newNode, ins[Writer].i)
    /\ \E f \in Finders : fnd[f].pc = "search" /\ fnd[f].s.c = ins[Writer].newNode
    /\ \E it \in Iterators : itr[it].pc = "open" /\ itr[it].n = ins[Writer].newNode

\* ------------------------------------------------------------------ C3
\* The sequence q of entries is strictly ascending in (key, then timestamp descending).
StrictlySorted(q) == \A j \in 1..(Len(q) - 1) : EntryBefore(q[j], q[j + 1])

\* C3: an Iterator run to exhaustion with no operation beside it has yielded every
\* inserted entry exactly once, each strictly after the one before.
C3_Ordering ==
    \A it \in Iterators :
        itr[it].pc = "exhausted" =>
            /\ Range(itr[it].yielded) = Nodes
            /\ Len(itr[it].yielded) = Cardinality(Nodes)
            /\ StrictlySorted(itr[it].yielded)

\* C3 witness: an exhausted iteration over three entries inserted out of order, two
\* of them versions of one key.
C3_Witness ==
    \E it \in Iterators :
        /\ itr[it].pc = "exhausted"
        /\ Len(itr[it].yielded) = 3
        /\ itr[it].yielded # <<1, 2, 3>>
        /\ heap[itr[it].yielded[1]].key = heap[itr[it].yielded[2]].key
        /\ heap[itr[it].yielded[2]].key # heap[itr[it].yielded[3]].key

\* ------------------------------------------------------------------ C4
\* The entries with key k, and the one of them with the largest timestamp.
Versions(k) == {x \in Nodes : heap[x].key = k}
Latest(k) == CHOOSE x \in Versions(k) : \A y \in Versions(k) : heap[y].timestamp <= heap[x].timestamp

\* C4: in a quiescent state Find(k) returns the value of the version of k with the
\* largest timestamp and found = TRUE when k has a version (tombstones and
\* math.MaxInt64 included), and (nil, FALSE) exactly when k has none.
C4_LatestVersion ==
    \A f \in Finders :
        fnd[f].pc = "return" =>
            IF Versions(fnd[f].key) # {}
            THEN FindResult(f) = [value |-> heap[Latest(fnd[f].key)].value, found |-> TRUE]
            ELSE FindResult(f) = [value |-> NilBytes, found |-> FALSE]

\* C4 witness: Find returns a nil value with found = TRUE from the version at
\* math.MaxInt64, while an older version of the key holds a non-nil value and
\* another key is present.
C4_Witness ==
    \E f \in Finders :
        /\ fnd[f].pc = "return"
        /\ FindResult(f) = [value |-> NilBytes, found |-> TRUE]
        /\ Cardinality(Versions(fnd[f].key)) = 2
        /\ heap[Latest(fnd[f].key)].timestamp = MathMaxInt64
        /\ \E y \in Versions(fnd[f].key) : ~heap[y].value.isnil
        /\ Cardinality(Nodes) = 3

\* ------------------------------------------------------------------ C5
\* The Insert of t carries the (key, timestamp) of an entry other than its own.
IsDuplicate(t) ==
    \E x \in Nodes \ {ins[t].newNode} :
        heap[x].key = ins[t].key /\ heap[x].timestamp = ins[t].timestamp

NoDuplicatePairs ==
    \A x, y \in Nodes :
        (heap[x].key = heap[y].key /\ heap[x].timestamp = heap[y].timestamp) => x = y

\* C5: no two entries ever share a (key, timestamp); an Insert that allocates or
\* links an entry is not a duplicate; the duplicate fault is raised only for a
\* duplicate and has allocated nothing; and the step of an Insert whose search has
\* ended on an equal (key, timestamp) is the fault, which changes no entry, no link
\* and no size.
C5_NoDuplicates ==
    /\ [](/\ NoDuplicatePairs
          /\ \A t \in Linking : ~IsDuplicate(t)
          /\ \A t \in Inserters :
                (ins[t].pc = "fatal" /\ fault = "duplicate") =>
                    (ins[t].newNode = nil /\ IsDuplicate(t)))
    /\ [][\A t \in Inserters :
            (ins[t].pc = "found" /\ IsDuplicate(t) /\ ins'[t] # ins[t]) =>
                (fault' = "duplicate" /\ heap' = heap /\ size' = size)]_vars

\* C5 witness: an Insert has faulted on the (key, timestamp) of an existing entry whose
\* value differs from the one offered; the entry still holds its own value.
C5_Witness ==
    \E t \in Inserters :
        /\ fault = "duplicate" /\ ins[t].pc = "fatal"
        /\ \E x \in Nodes :
              /\ heap[x].key = ins[t].key /\ heap[x].timestamp = ins[t].timestamp
              /\ heap[x].value # ins[t].value
              /\ x \in Reachable

\* ------------------------------------------------------------------ C6
\* The inserters past the checks of lines 79-86 and not yet returned.
Applying == {t \in Inserters : ins[t].pc \in {"search", "found", "copy", "publish", "return"}}

\* C6: the watermark never decreases; the call of Insert with seqNo below the
\* watermark is the seqNo fault and leaves the watermark alone, and with seqNo at or
\* above it sets the watermark to seqNo; while no lock is held the watermark is the
\* seqNo of the last returned Insert (New's argument before any), and that is what
\* SequenceUpper returns.
C6_SequenceMonotonic ==
    /\ [](/\ \A t \in Applying : seqNoUpper = ins[t].seqNo /\ committedSeq <= ins[t].seqNo
          /\ \A t \in Inserters :
                (ins[t].pc = "fatal" /\ fault = "seqNo") => ins[t].seqNo < seqNoUpper
          /\ mu = Unlocked => seqNoUpper = committedSeq
          /\ \A a \in Accessors :
                (acc[a].pc = "locked" /\ acc[a].op = "SequenceUpper") =>
                    acc[a].ret = committedSeq)
    /\ [][/\ seqNoUpper' >= seqNoUpper
          /\ \A t \in Inserters :
                (ins[t].pc = "idle" /\ ins'[t].pc # "idle") =>
                    IF ins'[t].seqNo < seqNoUpper
                    THEN fault' = "seqNo" /\ seqNoUpper' = seqNoUpper
                    ELSE fault' # "seqNo" /\ seqNoUpper' = ins'[t].seqNo]_vars

\* C6 witness: SequenceUpper returns MaxSeq, the seqNo of the last of two Inserts
\* that have returned.
C6_Witness ==
    \E a \in Accessors :
        /\ acc[a].pc = "locked" /\ acc[a].op = "SequenceUpper"
        /\ acc[a].ret = MaxSeq /\ MaxSeq > 0
        /\ Cardinality(Nodes) = 2

\* ------------------------------------------------------------------ C7
\* len(key) + len(value) + 8 + 8 * (number of links) of entry x.
EntryBytes(x) ==
    Len(heap[x].key)
    + (IF heap[x].value.isnil THEN 0 ELSE Len(heap[x].value.bytes))
    + 8 + 8 * Cardinality(DOMAIN heap[x].next)

RECURSIVE TotalBytes(_)
TotalBytes(S) ==
    IF S = {} THEN 0
    ELSE LET x == CHOOSE y \in S : TRUE IN EntryBytes(x) + TotalBytes(S \ {x})

\* C7: m.size is 0 for a new memtable and otherwise the sum, over the entries
\* inserted, of len(key) + len(value) + 8 + 8 * (L + 1); a single entry with a 2-byte
\* key and a 2-byte value at level 0 makes it 20.
C7_SizeAccounting ==
    /\ size = TotalBytes(Nodes)
    /\ Nodes = {} => size = 0
    /\ (/\ Nodes = {1}
        /\ Len(heap[1].key) = 2
        /\ heap[1].value = Bytes(<<118, 49>>)
        /\ DOMAIN heap[1].next = {0}) => size = 20
    /\ \A a \in Accessors :
          (acc[a].pc = "locked" /\ acc[a].op = "SizeBytes") => acc[a].ret = TotalBytes(Nodes)

\* C7 witness: SizeBytes returns 20 + 35 for "k1"/"v1" at level 0 followed by a
\* one-byte key with a 2-byte value at level 2.
C7_Witness ==
    \E a \in Accessors :
        /\ acc[a].pc = "locked" /\ acc[a].op = "SizeBytes"
        /\ Nodes = {1, 2}
        /\ heap[1].key = <<107, 49>> /\ heap[1].value = Bytes(<<118, 49>>)
        /\ DOMAIN heap[1].next = {0}
        /\ DOMAIN heap[2].next = {0, 1, 2} /\ heap[2].value = Bytes(<<118, 49>>)
        /\ acc[a].ret = 55

\* ------------------------------------------------------------------ C9
\* The goroutines between m.mu.Lock() and the Unlock of Insert.
InFlight == {t \in Inserters : ins[t].pc # "idle"}

\* Entry x is linked at every one of its levels.
FullyLinked(x) == \A l \in DOMAIN heap[x].next : x \in Range(ChainFrom(head, l))

\* C9: at most one Insert is between Lock and Unlock, and it is the holder of the
\* lock; while SizeBytes or SequenceUpper holds its return value no Insert is in
\* flight, SizeBytes's value is the size-formula sum over exactly the fully linked
\* entries, and SequenceUpper's value is the seqNo of the last returned Insert (or
\* New's argument).
C9_SerializedAndCommitted ==
    /\ Cardinality(InFlight) <= 1
    /\ \A t \in InFlight : mu = t
    /\ \A a \in Accessors :
          acc[a].pc = "locked" =>
              /\ InFlight = {}
              /\ mu = a
              /\ acc[a].op = "SizeBytes" =>
                    acc[a].ret = TotalBytes({x \in Nodes : FullyLinked(x)})
              /\ acc[a].op = "SequenceUpper" => acc[a].ret = committedSeq

\* C9 witness: SizeBytes holds its return value after two Inserts by different
\* goroutines' turns, the second entry linked at two levels or more.
C9_Witness ==
    \E a \in Accessors :
        /\ acc[a].pc = "locked" /\ acc[a].op = "SizeBytes"
        /\ Cardinality(Nodes) = 2
        /\ \E x \in Nodes : Cardinality(DOMAIN heap[x].next) >= 2 /\ FullyLinked(x)
        /\ acc[a].ret = size /\ size > 0

\* ------------------------------------------------------------------ C10
\* C10: whatever the interleaving with Inserts, the entries an Iterator has yielded
\* are inserted entries in strictly ascending (key, timestamp descending) order, and
\* an exhausted Iterator has yielded every entry that was linked at level 0 when it
\* was created.
C10_IteratorUnderInserts ==
    \A it \in Iterators :
        /\ Range(itr[it].yielded) \subseteq Nodes
        /\ StrictlySorted(itr[it].yielded)
        /\ itr[it].pc = "exhausted" => itr[it].snapshot \subseteq Range(itr[it].yielded)

\* C10 witness: an exhausted Iterator that was created over one entry has yielded it
\* and one entry inserted during the iteration, and has missed another entry that
\* was linked at level 0 behind its position.
C10_Witness ==
    \E it \in Iterators :
        /\ itr[it].pc = "exhausted"
        /\ Cardinality(itr[it].snapshot) = 1
        /\ Len(itr[it].yielded) = 2
        /\ Cardinality(Range(ChainFrom(head, 0))) = 3

\* ------------------------------------------------------------------ C8
\* C8: m.mu is never held by a Find or an Iterator; the next step of a Find or an
\* Iterator in progress is enabled whoever holds m.mu; and a Find or an iteration
\* begun beside an Insert that holds m.mu and takes no further step runs to its
\* end: the search reaches its return, the Iterator is exhausted.
C8_LockFreeReads ==
    /\ [](/\ mu \notin (Finders \cup Iterators)
          /\ \A f \in Finders :
                /\ fnd[f].pc = "search" => ENABLED FindSearch(f)
                /\ fnd[f].pc = "return" => ENABLED FindReturn(f)
          /\ \A it \in Iterators :
                itr[it].pc = "open" => ENABLED IteratorNext(it))
    /\ \A f \in Finders : (fnd[f].pc = "search") ~> (fnd[f].pc = "return")
    /\ \A it \in Iterators : (itr[it].pc = "open") ~> (itr[it].pc = "exhausted")

\* C8 witness: beside an Insert stopped between populating and publishing a link, a
\* Find has reached its return and an Iterator is exhausted after yielding an entry.
C8_Witness ==
    /\ mu = Writer /\ ins[Writer].pc = "publish"
    /\ Cardinality(Nodes) >= 2
    /\ \E f \in Finders : fnd[f].pc = "return" /\ FindResult(f).found
    /\ \E it \in Iterators : itr[it].pc = "exhausted" /\ itr[it].yielded # << >>

\* ------------------------------------------------------------------ C11
\* C11: a call of Insert with an empty key has faulted as soon as it has begun (with
\* the empty-key fault unless its seqNo was below the watermark, which is checked
\* first), and so has a call of Find with an empty key, while a Find with a non-empty
\* key has not; every entry reachable from the head has a
\* non-empty key; and an Insert that has faulted has linked no entry.
C11_EmptyKeyRejected ==
    /\ \A t \in Inserters :
          (ins[t].pc # "idle" /\ ins[t].key = << >>) =>
              /\ ins[t].pc = "fatal" /\ ins[t].newNode = nil
              /\ fault = "emptyKey" \/ (fault = "seqNo" /\ ins[t].seqNo < seqNoUpper)
    /\ \A f \in Finders :
          fnd[f].pc # "idle" =>
              (fnd[f].key = << >> <=> (fnd[f].pc = "fatal" /\ fault = "emptyKey"))
    /\ \A x \in Reachable : heap[x].key # << >>
    /\ \A t \in Inserters : ins[t].pc = "fatal" => ins[t].newNode \notin Reachable

\* C11 witness: an Insert with an empty key has faulted on a memtable that holds two
\* entries; both are still linked and nothing else is.
C11_Witness ==
    /\ fault = "emptyKey"
    /\ ins[Writer].pc = "fatal" /\ ins[Writer].key = << >>
    /\ Cardinality(Nodes) = 2
    /\ Reachable = Nodes

\* ------------------------------------------------------------------ C12
\* C12 as stated: the watermark is advanced as the last step of Insert, so while an
\* Insert is between its checks and the end of publication the watermark is still
\* the seqNo of the last returned Insert; and an Insert that has faulted on an empty
\* key or on a duplicate has left the watermark at that value, the size at the sum
\* over the entries inserted, and every entry linked at each of its levels.
C12_WatermarkOnlyOnSuccess ==
    /\ \A t \in Inserters :
          ins[t].pc \in {"search", "found", "copy", "publish"} => seqNoUpper = committedSeq
    /\ \A t \in Inserters :
          (ins[t].pc = "fatal" /\ fault \in {"emptyKey", "duplicate"}) =>
              /\ seqNoUpper = committedSeq
              /\ size = TotalBytes(Nodes)
              /\ \A x \in Nodes : FullyLinked(x)

\* ------------------------------------------------------------------ C13
\* Entry x sorts strictly before the target (key, ts): smaller key, or the same key
\* and a larger timestamp.
BeforeTarget(x, key, ts) ==
    \/ StrLess(heap[x].key, key)
    \/ (heap[x].key = key /\ heap[x].timestamp > ts)

\* The first entry of the chain q at or after the target, nil when there is none.
FirstAtOrAfter(q, key, ts) ==
    LET J == {j \in 1..Len(q) : ~BeforeTarget(q[j], key, ts)} IN
    IF J = {} THEN nil ELSE q[CHOOSE j \in J : \A k \in J : j <= k]

\* The last entry of the chain q strictly before the target, the head when there is none.
LastBefore(q, key, ts) ==
    LET J == {j \in 1..Len(q) : BeforeTarget(q[j], key, ts)} IN
    IF J = {} THEN head ELSE q[CHOOSE j \in J : \A k \in J : j >= k]

\* C13: with no other operation in progress, the search of Insert has ended with the
\* first level-0 entry at or after (key, timestamp), or nil, and with prev[l], for
\* every level l, the last entry of the level-l chain strictly before the target, or
\* the head; the search of Find, which passes no prev, has ended with the first
\* level-0 entry at or after (key, math.MaxInt64), or nil.
C13_SearchPrimitive ==
    /\ \A t \in Inserters :
          ins[t].pc = "found" =>
              /\ ins[t].s.nextAtLevel =
                    FirstAtOrAfter(ChainFrom(head, 0), ins[t].key, ins[t].timestamp)
              /\ \A l \in Levels :
                    ins[t].s.prev[l] =
                        LastBefore(ChainFrom(head, l), ins[t].key, ins[t].timestamp)
    /\ \A f \in Finders :
          fnd[f].pc = "return" =>
              /\ fnd[f].s.nextAtLevel =
                    FirstAtOrAfter(ChainFrom(head, 0), fnd[f].key, MathMaxInt64)
              /\ \A l \in Levels : fnd[f].s.prev[l] = nil

\* C13 witness: the search of an Insert between two entries has ended on the second,
\* with an entry as predecessor at level 0 and the head as predecessor at a level the
\* second entry is linked at.
C13_Witness ==
    /\ ins[Writer].pc = "found"
    /\ Cardinality(Nodes) = 2
    /\ ins[Writer].s.nextAtLevel # nil
    /\ ins[Writer].s.prev[0] \in Nodes
    /\ \E l \in Levels :
          /\ ins[Writer].s.prev[l] = head
          /\ heap[head].next[l] = ins[Writer].s.nextAtLevel

\* ------------------------------------------------------------------ C14
\* The entries met along the level-l links that start at node a, in this state and
\* in the next.
LevelReach(a, l) == Range(ChainFrom(a, l))
LevelReachNext(a, l) == Range(ChainFrom(a, l))'

\* C14: in every step, a link slot that changes is either the still unlinked new
\* entry's own slot being populated, or the level-i slot of a predecessor p being
\* redirected to a new entry n whose level-i link already equals p's previous
\* target, with p the head or strictly before n and the previous target nil or
\* strictly after n; and for every node e and level i the set of entries reachable
\* from e along level-i links after the step contains the set before it.
C14_LinksOnlyMoveForward ==
    [][\A p \in DOMAIN heap : \A i \in DOMAIN heap[p].next :
          /\ heap'[p].next[i] # heap[p].next[i] =>
                LET old == heap[p].next[i]
                    n == heap'[p].next[i]
                IN  \/ /\ \E t \in Inserters : ins[t].pc = "copy" /\ p = ins[t].newNode
                       /\ old = nil
                       /\ \A l \in Levels : ~LinkedAt(p, l) \/ l < i
                    \/ /\ n \in Nodes
                       /\ \E t \in Inserters : ins[t].pc = "publish" /\ n = ins[t].newNode
                       /\ i \in DOMAIN heap[n].next
                       /\ heap[n].next[i] = old
                       /\ p = head \/ EntryBefore(p, n)
                       /\ old = nil \/ EntryBefore(n, old)
          /\ LevelReach(p, i) \subseteq LevelReachNext(p, i)]_vars

\* C14 witness: an Insert has just redirected the level-0 link of an entry, which
\* pointed to another entry, to its new entry; the new entry now leads to the old
\* target.
C14_Witness ==
    /\ ins[Writer].pc \in {"copy", "return"}
    /\ ins[Writer].i = 1
    /\ ins[Writer].s.prev[0] \in Nodes
    /\ heap[ins[Writer].s.prev[0]].next[0] = ins[Writer].newNode
    /\ heap[ins[Writer].newNode].next[0] \in Nodes

\* ------------------------------------------------------------------ C15
\* The level-l chain from the head ends at nil without meeting an entry twice.
ChainAcyclic(l) ==
    LET q == ChainFrom(head, l) IN
    /\ Len(q) <= Cardinality(Nodes)
    /\ Cardinality(Range(q)) = Len(q)
    /\ \A j \in 1..Len(q) : l \in DOMAIN heap[q[j]].next
    /\ Len(q) > 0 => heap[q[Len(q)]].next[l] = nil

\* C15: in every state, the states between the steps of an Insert included, the chain
\* of each level from the head is finite and acyclic and strictly ascending in (key,
\* timestamp descending), and every entry on the chain of level l + 1 is on the chain
\* of level l.
C15_ChainStructure ==
    /\ \A l \in Levels :
          /\ ChainAcyclic(l)
          /\ StrictlySorted(ChainFrom(head, l))
    /\ \A l \in Levels \ {maxLevel - 1} :
          Range(ChainFrom(head, l + 1)) \subseteq Range(ChainFrom(head, l))

\* C15 witness: an Insert is between its level-0 and level-1 passes: its new entry is
\* on the level-0 chain, between two entries, and not yet on the level-1 chain,
\* which holds another entry.
C15_Witness ==
    /\ ins[Writer].pc = "copy" /\ ins[Writer].i = 1
    /\ ins[Writer].s.prev[0] \in Nodes
    /\ heap[ins[Writer].newNode].next[0] \in Nodes
    /\ ins[Writer].newNode \in Range(ChainFrom(head, 0))
    /\ ins[Writer].newNode \notin Range(ChainFrom(head, 1))
    /\ ChainFrom(head, 1) # << >>

\* ------------------------------------------------------------------ C16
\* C16: a Find(k) that has reached its return beside any interleaving of Inserts
\* returns found = TRUE and the value of an entry of key k, whenever it returns found
\* = TRUE; and when some Insert of key k had returned before the Find began, it
\* returns found = TRUE with the value of an entry of key k whose timestamp is at
\* least that of every such entry.
C16_FindMonotone ==
    \A f \in Finders :
        fnd[f].pc = "return" =>
            LET n == fnd[f].s.nextAtLevel
                r == FindResult(f)
            IN  /\ r.found => (n \in Nodes /\ heap[n].key = fnd[f].key /\ r.value = heap[n].value)
                /\ fnd[f].completed # {} =>
                      /\ r.found
                      /\ \A x \in fnd[f].completed : heap[n].timestamp >= heap[x].timestamp

\* C16 witness: a Find that began after an Insert of its key had returned ends on a
\* newer version of the key, the new entry of an Insert that is still in progress.
C16_Witness ==
    \E f \in Finders :
        /\ fnd[f].pc = "return"
        /\ fnd[f].completed # {}
        /\ fnd[f].s.nextAtLevel = ins[Writer].newNode
        /\ ins[Writer].pc \in {"copy", "publish"}
        /\ \A x \in fnd[f].completed :
              heap[fnd[f].s.nextAtLevel].timestamp > heap[x].timestamp

\* ------------------------------------------------------------------ C17
\* The link slots of the nodes of h0 whose content differs in the current heap.
ChangedSlots(h0) ==
    {sl \in UNION {{<<x, l>> : l \in DOMAIN h0[x].next} : x \in DOMAIN h0} :
        heap[sl[1]].next[sl[2]] # h0[sl[1]].next[sl[2]]}

\* C17: when an Insert that was assigned level L is about to return, the nodes are
\* those of its call time and the new entry; every node of its call time has its
\* key, timestamp, value and number of link slots, and the link slots of those nodes
\* that have changed are exactly one per level 0..L, the level-i slot of the search's
\* level-i predecessor, which now points to the new entry.  A step in which no
\* Insert moves (a step of Find, NewIterator, Next, SizeBytes or SequenceUpper)
\* changes no node, nor the size, nor the watermark; and no step ever changes the
\* key, timestamp, value or number of link slots of a node.
C17_InsertFrame ==
    /\ [](\A t \in Inserters :
            ins[t].pc = "return" =>
                LET h0 == ins[t].heap0 IN
                /\ DOMAIN heap = DOMAIN h0 \cup {ins[t].newNode}
                /\ ins[t].newNode \notin DOMAIN h0
                /\ \A x \in DOMAIN h0 :
                      /\ heap[x].key = h0[x].key
                      /\ heap[x].timestamp = h0[x].timestamp
                      /\ heap[x].value = h0[x].value
                      /\ DOMAIN heap[x].next = DOMAIN h0[x].next
                /\ ChangedSlots(h0) = {<<ins[t].s.prev[i], i>> : i \in 0..ins[t].level}
                /\ Cardinality(ChangedSlots(h0)) = ins[t].level + 1
                /\ \A sl \in ChangedSlots(h0) : heap[sl[1]].next[sl[2]] = ins[t].newNode)
    /\ [][/\ ins' = ins => (heap' = heap /\ size' = size /\ seqNoUpper' = seqNoUpper)
          /\ \A x \in DOMAIN heap :
                /\ x \in DOMAIN heap'
                /\ heap'[x].key = heap[x].key
                /\ heap'[x].timestamp = heap[x].timestamp
                /\ heap'[x].value = heap[x].value
                /\ DOMAIN heap'[x].next = DOMAIN heap[x].next]_vars

\* C17 witness: an Insert at level 1 into a memtable of two entries is about to
\* return, having redirected the level-0 slot of one entry and the level-1 slot of
\* another node; a slot at level 2 exists and is as it was.
C17_Witness ==
    /\ ins[Writer].pc = "return"
    /\ ins[Writer].level = 1
    /\ Cardinality(DOMAIN ins[Writer].heap0) = 3
    /\ ins[Writer].s.prev[0] \in Nodes
    /\ ins[Writer].s.prev[1] # ins[Writer].s.prev[0]
    /\ \E x \in DOMAIN ins[Writer].heap0 :
          /\ 2 \in DOMAIN heap[x].next
          /\ heap[x].next[2] = ins[Writer].heap0[x].next[2]
          /\ heap[x].next[2] # nil

Admissible == 1..(2 ^ maxLevel - 1)

\* l is the number of trailing zero bits of the nonzero integer r.
IsTrailingZeros(r, l) == r % (2 ^ l) = 0 /\ (r \div (2 ^ l)) % 2 = 1

\* C19: every level pickLevel has returned is the number of trailing zero bits of
\* its nonzero draw of [1, 2^maxLevel) and lies in 0..maxLevel-1; the loop holds
\* only draws of [0, 2^maxLevel); once every admissible draw has been returned, exactly
\* 2^(maxLevel-1-k) of them have given level k, for each k in 0..maxLevel-1; and a
\* draw of 0 is never returned: the step that follows it is another draw.
C19_LevelAssignment ==
    /\ [](/\ \A res \in pick.results :
                /\ res[1] \in Admissible
                /\ res[2] \in 0..(maxLevel - 1)
                /\ IsTrailingZeros(res[1], res[2])
          /\ pick.r \in 0..(2 ^ maxLevel - 1)
          /\ {res[1] : res \in pick.results} = Admissible =>
                \A k \in 0..(maxLevel - 1) :
                    Cardinality({res \in pick.results : res[2] = k}) = 2 ^ (maxLevel - 1 - k))
    /\ [][(pick.pc = "loop" /\ pick.r = 0) =>
              (pick'.pc = "loop" /\ pick'.results = pick.results)]_vars

\* C19 witness: every admissible draw has been returned, one of them at the top
\* level maxLevel-1, and the call in progress has just drawn 0.
C19_Witness ==
    /\ {res[1] : res \in pick.results} = Admissible
    /\ \E res \in pick.results : res[2] = maxLevel - 1
    /\ pick.pc = "loop" /\ pick.r = 0

\* ------------------------------------------------------------------ C20
\* Slot l of node e can be loaded or stored: e is an allocated node, not nil, and
\* l is below its number of link slots.
SlotExists(e, l) ==
    /\ e # nil
    /\ e \in DOMAIN heap
    /\ l >= 0 /\ l < Cardinality(DOMAIN heap[e].next)

====
